---- MODULE Spec2Model ----
(***************************************************************************)
(* N-way merge of sorted integer lists (src/NWayMerge.cpp).                *)
(*                                                                         *)
(* NWayMerger::MergeLists is modelled step by step: one action per         *)
(* iteration of the seed loop and of the drain loop.  The heap is the      *)
(* vector that std::priority_queue<Element, std::vector<Element>,          *)
(* std::greater<Element>> keeps, with push and pop as the standard         *)
(* library performs them (push_back + push_heap, pop_heap + pop_back), so  *)
(* that the order in which equal values leave the heap is computed, not    *)
(* assumed.  The heap steps are those of the GNU C++ library               *)
(* (std::__push_heap, std::__adjust_heap); the language standard leaves    *)
(* the order of equal elements open.  NWayMerger::MergeAndWrite is the     *)
(* pipeline ReadInputFile -> MergeLists -> WriteOutputFile over a file of  *)
(* characters; numbers stay far below the range of int at these sizes.     *)
(***************************************************************************)
EXTENDS Integers, Sequences, FiniteSets, Bags, TLC

\* ------------------------------------------------------------------ bounds
MaxK == 4           \* most lists given to MergeLists
MaxTotal == 4       \* most elements over all lists
MaxVal == 1         \* list values range over -1 .. MaxVal
MaxFileLen == 5     \* most characters in the input file

Values == (0 - 1) .. MaxVal

VARIABLES
    lists,          \* the argument of MergeLists: a sequence of sequences of int
    i,              \* the seed loop's index (0-based, as in the code)
    min_heap,       \* the priority queue's underlying vector of Elements
    result,         \* the vector MergeLists builds and returns
    popped,         \* history of min_el: the Elements taken off the heap, in order
    pc,             \* where the program is
    input_ok,       \* whether the input file can be opened
    content,        \* the characters of the input file
    output_ok,      \* whether the output file can be opened
    output_file,    \* the output file: "absent" or the characters written
    error           \* the exception that left MergeAndWrite, or "none"

vars == <<lists, i, min_heap, result, popped, pc,
          input_ok, content, output_ok, output_file, error>>

engineVars == <<lists, i, min_heap, result, popped>>
fileVars == <<input_ok, content, output_ok, output_file, error>>

\* ------------------------------------------------------------- Element, heap

\* struct Element { int value; size_t list_index; size_t element_index; }
Element(v, li, ei) == [value |-> v, list_index |-> li, element_index |-> ei]

\* A max-heap comparison instead of the min-heap one.
GreaterFlipped(a, b) == a.value < b.value

\* Element::operator> : compares the values only.
Greater(a, b) == a.value > b.value

\* The vector's element at 0-based position k.
At(h, k) == h[k + 1]

\* h with the element at 0-based position k replaced by e.
Put(h, k, e) == [h EXCEPT ![k + 1] = e]

\* std::__push_heap(first, holeIndex, topIndex, value, comp): the hole moves
\* up while its parent compares greater than the value.
RECURSIVE PushHeapFrom(_, _, _, _)
PushHeapFrom(h, holeIndex, topIndex, v) ==
    IF holeIndex > topIndex /\ Greater(At(h, (holeIndex - 1) \div 2), v)
    THEN PushHeapFrom(Put(h, holeIndex, At(h, (holeIndex - 1) \div 2)),
                      (holeIndex - 1) \div 2, topIndex, v)
    ELSE Put(h, holeIndex, v)

\* priority_queue::push : c.push_back(x); std::push_heap(c.begin(), c.end(), comp)
HeapPush(h, e) == PushHeapFrom(Append(h, e), Len(h), 0, e)

\* The first loop of std::__adjust_heap: the hole moves down to a leaf, each
\* time taking the right child unless it compares greater than the left one.
\* Returns <<vector, holeIndex, secondChild>>.
RECURSIVE AdjustDown(_, _, _, _)
AdjustDown(h, holeIndex, secondChild, len) ==
    IF secondChild < (len - 1) \div 2
    THEN LET sc == 2 * (secondChild + 1)
             pick == IF Greater(At(h, sc), At(h, sc - 1)) THEN sc - 1 ELSE sc
         IN  AdjustDown(Put(h, holeIndex, At(h, pick)), pick, pick, len)
    ELSE <<h, holeIndex, secondChild>>

\* std::__adjust_heap(first, holeIndex, len, value, comp)
AdjustHeap(h, holeIndex, len, v) ==
    LET d == AdjustDown(h, holeIndex, holeIndex, len)
        onlyLeft == (len % 2 = 0) /\ d[3] = (len - 2) \div 2
        h2 == IF onlyLeft THEN Put(d[1], d[2], At(d[1], 2 * (d[3] + 1) - 1)) ELSE d[1]
        hole2 == IF onlyLeft THEN 2 * (d[3] + 1) - 1 ELSE d[2]
    IN  PushHeapFrom(h2, hole2, holeIndex, v)

\* pop_back without pop_heap: the last element is dropped and the top stays.
HeapPopBackOnly(h) == SubSeq(h, 1, Len(h) - 1)

\* priority_queue::pop : std::pop_heap(c.begin(), c.end(), comp); c.pop_back()
HeapPop(h) ==
    IF Len(h) > 1
    THEN AdjustHeap(SubSeq(h, 1, Len(h) - 1), 0, Len(h) - 1, h[Len(h)])
    ELSE <<>>

\* priority_queue::top : c.front()
HeapTop(h) == h[1]

\* ---------------------------------------------------------------- MergeLists

\* The seed loop's body drops the emptiness test's else-branch: an empty list
\* ends the seeding of the lists after it.
SeedBodySkipsRest(ls, k, h) ==
    IF Len(ls[k + 1]) # 0
    THEN <<HeapPush(h, Element(ls[k + 1][1], k, 0)), k + 1>>
    ELSE <<h, Len(ls)>>

\* The index is not advanced past an empty list: the seed loop spins on it.
SeedBodyStuckOnEmpty(ls, k, h) ==
    IF Len(ls[k + 1]) # 0
    THEN <<HeapPush(h, Element(ls[k + 1][1], k, 0)), k + 1>>
    ELSE <<h, k>>

\* The body of the seed loop for index k: <<heap, next index>>.
SeedBody(ls, k, h) ==
    IF Len(ls[k + 1]) # 0
    THEN <<HeapPush(h, Element(ls[k + 1][1], k, 0)), k + 1>>
    ELSE <<h, k + 1>>

\* The refill test is off by one: the last element of a list is never pushed.
RefillDropsLast(ls, h, min_el) ==
    IF min_el.element_index + 2 < Len(ls[min_el.list_index + 1])
    THEN HeapPush(h, Element(ls[min_el.list_index + 1][min_el.element_index + 2],
                             min_el.list_index, min_el.element_index + 1))
    ELSE h

\* Step 3 of the drain loop: push the next element of min_el's list, if any.
Refill(ls, h, min_el) ==
    IF min_el.element_index + 1 < Len(ls[min_el.list_index + 1])
    THEN HeapPush(h, Element(ls[min_el.list_index + 1][min_el.element_index + 2],
                             min_el.list_index, min_el.element_index + 1))
    ELSE h

\* for (size_t i = 0; i < lists.size(); ++i) { if (!lists[i].empty()) push }
SeedStep ==
    /\ pc = "Seeding"
    /\ i < Len(lists)
    /\ min_heap' = SeedBody(lists, i, min_heap)[1]
    /\ i' = SeedBody(lists, i, min_heap)[2]
    /\ UNCHANGED <<lists, result, popped, pc>>
    /\ UNCHANGED fileVars

\* The seed loop's condition fails: the drain loop is next.
SeedExit ==
    /\ pc = "Seeding"
    /\ i >= Len(lists)
    /\ pc' = "Draining"
    /\ UNCHANGED engineVars
    /\ UNCHANGED fileVars

\* One iteration of while (!min_heap.empty()): top, pop, push_back, refill.
DrainStep ==
    /\ pc = "Draining"
    /\ min_heap # <<>>
    /\ LET min_el == HeapTop(min_heap)
       IN  /\ result' = Append(result, min_el.value)
           /\ popped' = Append(popped, min_el)
           /\ min_heap' = Refill(lists, HeapPop(min_heap), min_el)
    /\ UNCHANGED <<lists, i, pc>>
    /\ UNCHANGED fileVars

\* The heap is empty: return result.
DrainExit ==
    /\ pc = "Draining"
    /\ min_heap = <<>>
    /\ pc' = "Done"
    /\ UNCHANGED engineVars
    /\ UNCHANGED fileVars

\* The engine as a function: the seed loop run to its end from index k.
RECURSIVE SeedAll(_, _, _)
SeedAll(ls, k, h) ==
    IF k >= Len(ls) THEN h
    ELSE SeedAll(ls, SeedBody(ls, k, h)[2], SeedBody(ls, k, h)[1])

\* The drain loop run to its end: the values in the order they are appended.
RECURSIVE DrainAll(_, _, _)
DrainAll(ls, h, out) ==
    IF h = <<>> THEN out
    ELSE DrainAll(ls, Refill(ls, HeapPop(h), HeapTop(h)), Append(out, HeapTop(h).value))

\* std::vector<int> MergeLists(lists)
MergeLists(ls) == DrainAll(ls, SeedAll(ls, 0, <<>>), <<>>)

\* ------------------------------------------------------------ ReadInputFile

\* The characters a file is made of: digits, a sign, blanks, and a letter.
Chars == {"0", "1", "2", "-", " ", "\n", "x"}

IsDigit(c) == c \in {"0", "1", "2", "3", "4", "5", "6", "7", "8", "9"}
IsSpace(c) == c \in {" ", "\n"}

DigitVal(c) ==
    CASE c = "0" -> 0 [] c = "1" -> 1 [] c = "2" -> 2 [] c = "3" -> 3 [] c = "4" -> 4
      [] c = "5" -> 5 [] c = "6" -> 6 [] c = "7" -> 7 [] c = "8" -> 8 [] c = "9" -> 9

\* The first position >= p of s that holds no white space (Len(s) + 1: the end).
RECURSIVE SkipWs(_, _)
SkipWs(s, p) == IF p <= Len(s) /\ IsSpace(s[p]) THEN SkipWs(s, p + 1) ELSE p

\* The first position >= p of s that holds no digit.
RECURSIVE SkipDigits(_, _)
SkipDigits(s, p) == IF p <= Len(s) /\ IsDigit(s[p]) THEN SkipDigits(s, p + 1) ELSE p

\* The decimal value of the digits s[p .. q-1], from acc.
RECURSIVE DigitsVal(_, _, _, _)
DigitsVal(s, p, q, acc) ==
    IF p >= q THEN acc ELSE DigitsVal(s, p + 1, q, 10 * acc + DigitVal(s[p]))

\* stream >> int at position p: leading white space is skipped, then an
\* optional sign and a run of digits are read.  ok: an int was read; eof: the
\* end of the stream was met; pos: where the stream now stands.
ExtractInt(s, p) ==
    LET p1 == SkipWs(s, p)
        neg == p1 <= Len(s) /\ s[p1] = "-"
        p2 == IF neg THEN p1 + 1 ELSE p1
        p3 == SkipDigits(s, p2)
    IN  IF p1 > Len(s) THEN [ok |-> FALSE, eof |-> TRUE, val |-> 0, pos |-> p1]
        ELSE IF p3 = p2 THEN [ok |-> FALSE, eof |-> p2 > Len(s), val |-> 0, pos |-> p2]
        ELSE [ok |-> TRUE, eof |-> p3 > Len(s),
              val |-> IF neg THEN 0 - DigitsVal(s, p2, p3, 0) ELSE DigitsVal(s, p2, p3, 0),
              pos |-> p3]

\* The position of the first "\n" at or after p, or Len(s) + 1.
RECURSIVE FindNewline(_, _)
FindNewline(s, p) == IF p <= Len(s) /\ s[p] # "\n" THEN FindNewline(s, p + 1) ELSE p

\* input_file.ignore(max, '\n'): the position after the rest of the line.
Ignore(s, p) == IF FindNewline(s, p) <= Len(s) THEN FindNewline(s, p) + 1 ELSE Len(s) + 1

\* std::getline(input_file, line): fails when nothing is left to extract.
GetLine(s, p) ==
    IF p > Len(s) THEN [ok |-> FALSE, line |-> <<>>, pos |-> p]
    ELSE [ok |-> TRUE, line |-> SubSeq(s, p, FindNewline(s, p) - 1), pos |-> Ignore(s, p)]

\* while (ss >> number) current_list.push_back(number);
RECURSIVE ParseLine(_, _, _)
ParseLine(line, p, acc) ==
    IF ExtractInt(line, p).ok
    THEN ParseLine(line, ExtractInt(line, p).pos, Append(acc, ExtractInt(line, p).val))
    ELSE acc

\* for (int i = 0; i < n; ++i) { getline ... }: the lists, or the exception.
RECURSIVE ReadLists(_, _, _, _, _)
ReadLists(s, p, k, n, acc) ==
    IF k >= n THEN [error |-> "none", lists |-> acc]
    ELSE IF GetLine(s, p).ok
    THEN ReadLists(s, GetLine(s, p).pos, k + 1, n,
                   Append(acc, ParseLine(GetLine(s, p).line, 1, <<>>)))
    ELSE [error |-> "unexpected_eof", lists |-> <<>>]

\* NWayMerger::ReadInputFile: the lists read, or the exception thrown.
ReadInputFile(ok, s) ==
    IF ~ok THEN [error |-> "input_open", lists |-> <<>>]
    ELSE IF ~ExtractInt(s, 1).ok
    THEN IF ExtractInt(s, 1).eof THEN [error |-> "none", lists |-> <<>>]
         ELSE [error |-> "bad_count", lists |-> <<>>]
    ELSE ReadLists(s, Ignore(s, ExtractInt(s, 1).pos), 0, ExtractInt(s, 1).val, <<>>)

\* ----------------------------------------------------------- WriteOutputFile

DigitChar(d) == <<"0", "1", "2", "3", "4", "5", "6", "7", "8", "9">>[d + 1]

\* The decimal digits of n >= 0.
RECURSIVE NatToChars(_)
NatToChars(n) ==
    IF n < 10 THEN <<DigitChar(n)>> ELSE Append(NatToChars(n \div 10), DigitChar(n % 10))

\* output_file << data[i]
IntToChars(n) == IF n < 0 THEN <<"-">> \o NatToChars(0 - n) ELSE NatToChars(n)

\* The loop of WriteOutputFile from index k, and the final "\n".
RECURSIVE Render(_, _)
Render(data, k) ==
    IF k > Len(data) THEN <<"\n">>
    ELSE IntToChars(data[k]) \o (IF k < Len(data) THEN <<" ">> ELSE <<>>) \o Render(data, k + 1)

\* ------------------------------------------------------------ MergeAndWrite

\* sorted_lists = ReadInputFile(input_file_path): an exception leaves MergeAndWrite.
ReadStep ==
    /\ pc = "Reading"
    /\ LET r == ReadInputFile(input_ok, content)
       IN  IF r.error = "none"
           THEN /\ lists' = r.lists
                /\ pc' = "Seeding"
                /\ UNCHANGED error
           ELSE /\ error' = r.error
                /\ pc' = "Thrown"
                /\ UNCHANGED lists
    /\ UNCHANGED <<i, min_heap, result, popped, input_ok, content, output_ok, output_file>>

\* WriteOutputFile(output_file_path, result): opening the file creates it.
WriteStep ==
    /\ pc = "Done"
    /\ IF output_ok
       THEN /\ output_file' = Render(result, 1)
            /\ pc' = "Returned"
            /\ UNCHANGED error
       ELSE /\ error' = "output_open"
            /\ pc' = "Thrown"
            /\ UNCHANGED output_file
    /\ UNCHANGED engineVars
    /\ UNCHANGED <<input_ok, content, output_ok>>

\* All files of at most MaxFileLen characters.
Files == UNION {[1..m -> Chars] : m \in 0..MaxFileLen}

\* MergeAndWrite is called with any input file, openable or not.
InitIO ==
    /\ input_ok \in BOOLEAN
    /\ content \in Files
    /\ output_ok \in BOOLEAN
    /\ output_file = "absent"
    /\ error = "none"
    /\ pc = "Reading"
    /\ lists = <<>>
    /\ i = 0
    /\ min_heap = <<>>
    /\ result = <<>>
    /\ popped = <<>>

NextIO == ReadStep \/ SeedStep \/ SeedExit \/ DrainStep \/ DrainExit \/ WriteStep

SpecIO == InitIO /\ [][NextIO]_vars

\* ------------------------------------------------------------------ inputs

\* The sum of the first k entries of lens.
RECURSIVE SumTo(_, _)
SumTo(lens, k) == IF k = 0 THEN 0 ELSE lens[k] + SumTo(lens, k - 1)

\* The elements flat cut into consecutive lists of the lengths lens.
Split(flat, lens) ==
    [j \in 1..Len(lens) |-> SubSeq(flat, SumTo(lens, j - 1) + 1, SumTo(lens, j))]

\* lists is any sequence of at most MaxK lists over Values holding at most
\* MaxTotal elements in total.
InputLists ==
    \E k \in 0..MaxK :
        \E lens \in [1..k -> 0..MaxTotal] :
            /\ SumTo(lens, k) <= MaxTotal
            /\ \E flat \in [1..SumTo(lens, k) -> Values] : lists = Split(flat, lens)

\* MergeLists is entered with any lists (sorted or not): its locals are fresh.
Init ==
    /\ InputLists
    /\ i = 0
    /\ min_heap = <<>>
    /\ result = <<>>
    /\ popped = <<>>
    /\ pc = "Seeding"
    /\ input_ok = TRUE
    /\ content = <<>>
    /\ output_ok = TRUE
    /\ output_file = "absent"
    /\ error = "none"

Next == SeedStep \/ SeedExit \/ DrainStep \/ DrainExit

Spec == Init /\ [][Next]_vars

\* The calling thread runs MergeLists without suspending: a step that can be
\* taken is taken.
FairSpec == Init /\ [][Next]_vars /\ WF_vars(Next)

\* ------------------------------------------------------- property vocabulary

Sorted(s) == \A a, b \in 1..Len(s) : a < b => s[a] <= s[b]
AllSorted == \A k \in 1..Len(lists) : Sorted(lists[k])

RECURSIVE Total(_)
Total(ls) == IF ls = <<>> THEN 0 ELSE Len(Head(ls)) + Total(Tail(ls))

RECURSIVE Concat(_)
Concat(ls) == IF ls = <<>> THEN <<>> ELSE Head(ls) \o Concat(Tail(ls))

RECURSIVE BagOfSeq(_)
BagOfSeq(s) == IF s = <<>> THEN EmptyBag ELSE SetToBag({Head(s)}) (+) BagOfSeq(Tail(s))

RECURSIVE InsertSorted(_, _)
InsertSorted(x, s) ==
    IF s = <<>> THEN <<x>>
    ELSE IF x <= Head(s) THEN <<x>> \o s
    ELSE <<Head(s)>> \o InsertSorted(x, Tail(s))

RECURSIVE SortAscending(_)
SortAscending(s) == IF s = <<>> THEN <<>> ELSE InsertSorted(Head(s), SortAscending(Tail(s)))

RECURSIVE RemoveEmpty(_)
RemoveEmpty(ls) ==
    IF ls = <<>> THEN <<>>
    ELSE IF Head(ls) = <<>> THEN RemoveEmpty(Tail(ls))
    ELSE <<Head(ls)>> \o RemoveEmpty(Tail(ls))

AllEmpty(ls) == \A k \in 1..Len(ls) : ls[k] = <<>>

\* How many elements of the list with 0-based index li have been emitted.
Consumed(li) == Cardinality({p \in 1..Len(popped) : popped[p].list_index = li})

\* ------------------------------------------------------------------- claims

\* C1: when every source is sorted ascending, the sequence MergeLists returns
\* is non-decreasing.
C1_Sortedness == (pc = "Done" /\ AllSorted) => Sorted(result)

C1_Witness ==
    /\ pc = "Done" /\ AllSorted /\ Len(lists) >= 2 /\ Len(result) >= 3
    /\ \E a \in 1..Len(result) : result[a] < 0
    /\ \E a \in 1..Len(result) - 1 : result[a] = result[a + 1]
    /\ \E k \in 1..Len(lists) : Len(lists[k]) >= 2 /\ lists[k][1] > lists[Len(lists)][1]

\* C2: the multiset of the values MergeLists returns is the multiset union of
\* the sources: nothing is lost, added or collapsed.
C2_MultisetEquality == pc = "Done" => BagOfSeq(result) = BagOfSeq(Concat(lists))

C2_Witness ==
    /\ pc = "Done" /\ Len(result) >= 3
    /\ \E j, k \in 1..Len(lists) :
          j # k /\ lists[j] # <<>> /\ lists[k] # <<>> /\ lists[j][1] = lists[k][1]

\* C3: MergeLists returns exactly as many elements as the sources hold, sorted
\* or not.
C3_Length == pc = "Done" => Len(result) = Total(lists)

C3_Witness == pc = "Done" /\ ~AllSorted /\ Len(lists) >= 2 /\ Len(result) = Total(lists)
              /\ Len(result) >= 3

\* C4: the merge always reaches Done and never fails, and the phases come in
\* the order Seeding, Draining, Done with none re-entered.
C4_Termination ==
    /\ <>(pc = "Done")
    /\ [](pc \in {"Seeding", "Draining", "Done"} /\ error = "none")
    /\ [][/\ pc = "Seeding" => pc' \in {"Seeding", "Draining"}
          /\ pc = "Draining" => pc' \in {"Draining", "Done"}
          /\ pc = "Done" => pc' = "Done"]_vars

C4_Witness == pc = "Done" /\ min_heap = <<>> /\ Len(lists) >= 2 /\ Len(result) >= 3

\* C5 as stated: equal values leave in source order: an occurrence of v from
\* source i is emitted before every occurrence of v from a source j > i.
C5_StableAcrossSources ==
    AllSorted =>
        \A p, q \in 1..Len(popped) :
            (popped[p].value = popped[q].value
             /\ popped[p].list_index < popped[q].list_index) => p < q

\* C5 as amended: the elements of one source are emitted in the order of their
\* positions in it (equal values included), each once.
C5_StableWithinSource ==
    \A p, q \in 1..Len(popped) :
        (p < q /\ popped[p].list_index = popped[q].list_index)
            => popped[p].element_index < popped[q].element_index

C5_Witness ==
    /\ pc = "Done" /\ AllSorted
    /\ \E p, q \in 1..Len(popped) :
          /\ p < q
          /\ popped[p].value = popped[q].value
          /\ popped[p].list_index = popped[q].list_index
          /\ \E r \in 1..Len(popped) : popped[r].value = popped[p].value
                                       /\ popped[r].list_index # popped[p].list_index

\* C6: empty sources are skipped without error: the result is that of the
\* same sources with the empty ones removed, and when there is no source or
\* all are empty the heap never holds anything and the result is empty.
C6_EmptySourceTolerance ==
    /\ pc \in {"Seeding", "Draining", "Done"} /\ error = "none"
    /\ pc = "Done" => result = MergeLists(RemoveEmpty(lists))
    /\ AllEmpty(lists) => (min_heap = <<>> /\ result = <<>>)

C6_Witness ==
    /\ pc = "Done" /\ Len(result) >= 2
    /\ lists[1] = <<>>
    /\ \E j, k \in 1..Len(lists) : j < k /\ lists[j] = <<>> /\ lists[k] # <<>>
    /\ \E j, k \in 1..Len(lists) : j < k /\ lists[j] # <<>> /\ lists[k] = <<>>

\* C7: with a single source the result equals that source, element by element.
C7_SingleSourcePassThrough == (pc = "Done" /\ Len(lists) = 1) => result = lists[1]

C7_Witness == pc = "Done" /\ Len(lists) = 1 /\ Len(lists[1]) >= 3 /\ Len(popped) >= 3

\* C9: with sorted sources the heap holds at most one Element per source, none
\* for an exhausted source, and each Element is in range, carries the value
\* at its position and is the smallest element of its source not yet emitted.
C9_CandidateInvariant ==
    (AllSorted /\ pc \in {"Seeding", "Draining"}) =>
        /\ \A a, b \in 1..Len(min_heap) :
              a # b => min_heap[a].list_index # min_heap[b].list_index
        /\ Len(min_heap) <= Cardinality({k \in 1..Len(lists) : lists[k] # <<>>})
        /\ \A a \in 1..Len(min_heap) :
              LET e == min_heap[a]
                  src == lists[e.list_index + 1]
              IN  /\ e.list_index < Len(lists)
                  /\ e.element_index < Len(src)
                  /\ e.value = src[e.element_index + 1]
                  /\ Consumed(e.list_index) < Len(src)
                  /\ e.element_index = Consumed(e.list_index)
                  /\ \A j \in Consumed(e.list_index) + 1 .. Len(src) : e.value <= src[j]

C9_Witness ==
    /\ pc = "Draining" /\ AllSorted /\ Len(min_heap) >= 2 /\ Len(popped) >= 2
    /\ \E a \in 1..Len(min_heap) : min_heap[a].element_index >= 1
    /\ \E k \in 1..Len(lists) : lists[k] # <<>> /\ Consumed(k - 1) = Len(lists[k])

\* C10: with sorted sources the output built so far is always a prefix of the
\* sorted sequence of all the values, and every value emitted is <= every
\* value in the heap and every value not yet consumed from any source.
C10_ValidPrefix ==
    AllSorted =>
        /\ Len(result) <= Total(lists)
        /\ result = SubSeq(SortAscending(Concat(lists)), 1, Len(result))
        /\ \A r \in 1..Len(result) :
              /\ \A a \in 1..Len(min_heap) : result[r] <= min_heap[a].value
              /\ \A k \in 1..Len(lists) :
                    \A j \in Consumed(k - 1) + 1 .. Len(lists[k]) : result[r] <= lists[k][j]

C10_Witness ==
    /\ pc = "Draining" /\ AllSorted /\ Len(result) >= 2 /\ Len(min_heap) >= 2
    /\ \E a \in 1..Len(min_heap) : min_heap[a].value = result[Len(result)]
    /\ \E k \in 1..Len(lists) : 0 < Consumed(k - 1) /\ Consumed(k - 1) < Len(lists[k])

\* The exceptions ReadInputFile throws.
ReadErrors == {"input_open", "bad_count", "unexpected_eof"}

\* How many lines getline can still deliver from position p.
RECURSIVE LinesFrom(_, _)
LinesFrom(s, p) == IF GetLine(s, p).ok THEN 1 + LinesFrom(s, GetLine(s, p).pos) ELSE 0

\* The file holds something other than blanks.
NonBlank(s) == \E p \in 1..Len(s) : ~IsSpace(s[p])

\* The three read failures the claim names.
CannotOpen == ~input_ok
CountUnparsable == input_ok /\ NonBlank(content) /\ ~ExtractInt(content, 1).ok
FewerLines ==
    /\ input_ok
    /\ ExtractInt(content, 1).ok
    /\ LinesFrom(content, Ignore(content, ExtractInt(content, 1).pos))
          < ExtractInt(content, 1).val

\* C8, first part: once ReadInputFile has thrown, the exception has left
\* MergeAndWrite, MergeLists was never started and the output file was never
\* opened; an empty file is no error and gives zero sources.
C8_ThrownReadStopsPipeline ==
    /\ (pc = "Thrown" /\ error \in ReadErrors) =>
          /\ lists = <<>> /\ i = 0 /\ min_heap = <<>> /\ result = <<>> /\ popped = <<>>
          /\ output_file = "absent"
    /\ ReadInputFile(input_ok, content).error # "none" =>
          /\ pc \in {"Reading", "Thrown"}
          /\ output_file = "absent"
    /\ (input_ok /\ content = <<>> /\ pc # "Reading") =>
          /\ lists = <<>>
          /\ error \notin ReadErrors

\* C8: in each of the three failure cases (file not openable, count of a
\* non-empty file unparsable, fewer than K list-lines) ReadInputFile throws,
\* the error reaches the caller, MergeLists is never started and the output
\* file is never opened; an empty file is no error and gives zero sources.
C8_ReadFailureStopsPipeline ==
    /\ C8_ThrownReadStopsPipeline
    /\ ((CannotOpen \/ CountUnparsable \/ FewerLines) /\ pc # "Reading") =>
          /\ pc = "Thrown"
          /\ error \in ReadErrors
          /\ output_file = "absent"

====
